---- MODULE Spec2Model ----
(***************************************************************************)
(* A model of release_the_hounds.py: main() resolves the endpoint, builds  *)
(* the API client, probes it, discovers the input files (zip archive or    *)
(* directory walk), then loads and submits each file in turn.              *)
(*                                                                         *)
(* Strings are sequences of tokens.  File names are sequences of single    *)
(* characters; URLs are sequences whose separators ":" and "/" are single  *)
(* tokens and whose other tokens are separator-free substrings.  File      *)
(* contents are sequences of byte groups ("BOM" is EF BB BF, "x9D" is a    *)
(* UTF-8 encoded character holding a byte that cp1252 leaves undefined).   *)
(***************************************************************************)
EXTENDS Integers, Sequences, FiniteSets, TLC

VARIABLES
    args,               \* argparse namespace: url, location, chunkobjects, chunksinjob
    platform,           \* the platform default text encoding used by open(f, 'r')
    disk,               \* what lies at args.location before the run
    fs,                 \* path -> entry, the files load_file can open
    pc,                 \* position of main()
    BHCE,               \* BHCE_SCHEME / BHCE_DOMAIN / BHCE_PORT
    chunking,           \* chunk_object_count / num_chunks_per_job
    client,             \* "none", "constructed", "probed"
    probeCalls,         \* number of client.get_version() calls
    archiveOpened,      \* zipfile.ZipFile(...) was called on the location
    files,              \* the list main() iterates over
    idx,                \* 1-based position of the for loop in files
    bhjson,             \* the document held between load_file and the submit
    loadLog,            \* one entry per load_file call
    submitLog,          \* one entry per chunk_and_submit_data call
    stdout,             \* diagnostics printed so far
    exitStatus          \* process exit status, -1 while running

vars == <<args, platform, disk, fs, pc, BHCE, chunking, client, probeCalls,
          archiveOpened, files, idx, bhjson, loadLog, submitLog, stdout, exitStatus>>

-----------------------------------------------------------------------------
(* Bounds and program constants *)

MaxFiles == 3

DefaultChunkObjects == 250

DefaultChunksInJob == 50

-----------------------------------------------------------------------------
(* String helpers: str.split, str.endswith, os.path.join *)

RECURSIVE Split(_, _)
Split(s, sep) ==
    IF s = <<>> THEN << <<>> >>
    ELSE LET rest == Split(Tail(s), sep) IN
         IF Head(s) = sep THEN << <<>> >> \o rest
         ELSE << <<Head(s)>> \o Head(rest) >> \o Tail(rest)

EndsWith(s, suffix) ==
    /\ Len(s) >= Len(suffix)
    /\ SubSeq(s, Len(s) - Len(suffix) + 1, Len(s)) = suffix

PathJoin(root, file) == root \o <<"/">> \o file

SeqsUpTo(S, n) == UNION { [1..k -> S] : k \in 0..n }

Range(s) == { s[i] : i \in 1..Len(s) }

DotJson == <<".", "j", "s", "o", "n">>

DotZip == <<".", "z", "i", "p">>

-----------------------------------------------------------------------------
(* Endpoint resolution, main() lines 115-125 *)

api_info ==
    [BHCE_SCHEME |-> <<"default_scheme">>,
     BHCE_DOMAIN |-> <<"default_domain">>,
     BHCE_PORT   |-> <<"default_port">>]

NoEndpoint == [scheme |-> <<>>, host |-> <<>>, port |-> <<>>]

\* Python truthiness of args.url: None and "" are both falsy.
Truthy(url) == url.given /\ url.val # <<>>

\* outcome "exit": the length check printed its message and called exit();
\* outcome "IndexError": .split('/')[2] indexed past the end;
\* outcome "ok": the three BHCE_* names are bound.
resolve_url(url) ==
    IF Truthy(url)
    THEN LET parts == Split(url.val, ":") IN
         IF Len(parts) # 3
         THEN [outcome |-> "exit", endpoint |-> NoEndpoint]
         ELSE LET slashed == Split(parts[2], "/") IN
              IF Len(slashed) < 3
              THEN [outcome |-> "IndexError", endpoint |-> NoEndpoint]
              ELSE [outcome |-> "ok",
                    endpoint |-> [scheme |-> parts[1],
                                  host   |-> slashed[3],
                                  port   |-> parts[3]]]
    ELSE [outcome |-> "ok",
          endpoint |-> [scheme |-> api_info.BHCE_SCHEME,
                        host   |-> api_info.BHCE_DOMAIN,
                        port   |-> api_info.BHCE_PORT]]

\* args.chunkobjects if args.chunkobjects else 250 (0 is falsy)
chunk_or_default(value, default) == IF value # 0 THEN value ELSE default

-----------------------------------------------------------------------------
(* Text decoding and JSON parsing as load_file uses them *)

KeyTokens == {"data", "meta", "computers"}

NoDoc == {}

\* open(..., encoding=enc).read(): the decoded text, or a UnicodeDecodeError.
Decode(enc, bytes) ==
    CASE enc = "utf-8" ->
            [ok |-> TRUE,
             text |-> [i \in 1..Len(bytes) |->
                          IF bytes[i] = "BOM" THEN "uFEFF" ELSE bytes[i]]]
      [] enc = "utf-8-sig" ->
            LET body == IF bytes # <<>> /\ Head(bytes) = "BOM"
                        THEN Tail(bytes) ELSE bytes IN
            [ok |-> TRUE,
             text |-> [i \in 1..Len(body) |->
                          IF body[i] = "BOM" THEN "uFEFF" ELSE body[i]]]
      [] enc = "cp1252" ->
            IF "x9D" \in Range(bytes)
            THEN [ok |-> FALSE, text |-> <<>>]
            ELSE [ok |-> TRUE,
                  text |-> [i \in 1..Len(bytes) |->
                               IF bytes[i] = "BOM" THEN "mojibake" ELSE bytes[i]]]

\* json.load on decoded text: an object "{" members "}" parses to the set of
\* its top-level keys; anything else is a JSONDecodeError.
JsonLoad(text) ==
    IF /\ Len(text) >= 2
       /\ text[1] = "{"
       /\ text[Len(text)] = "}"
       /\ \A i \in 2..(Len(text) - 1) : text[i] \in KeyTokens \cup {"x9D"}
    THEN [ok |-> TRUE,
          doc |-> { text[i] : i \in 2..(Len(text) - 1) } \cap KeyTokens]
    ELSE [ok |-> FALSE, doc |-> NoDoc]

\* with open(filename, 'r', encoding=enc) as f: json.load(f)
\* A missing path or a directory fails in open(); undecodable bytes fail in read().
OpenAndParse(fsys, enc, filename) ==
    IF filename \notin DOMAIN fsys \/ fsys[filename].type # "file"
    THEN [ok |-> FALSE, doc |-> NoDoc]
    ELSE LET decoded == Decode(enc, fsys[filename].bytes) IN
         IF decoded.ok THEN JsonLoad(decoded.text)
         ELSE [ok |-> FALSE, doc |-> NoDoc]

\* Variant without the utf-8-sig fallback.
load_file_single_attempt(fsys, enc, filename) ==
    LET first == OpenAndParse(fsys, enc, filename) IN
    [attempts |-> 1, ok |-> first.ok, doc |-> first.doc]

load_file(fsys, enc, filename) ==
    LET first == OpenAndParse(fsys, enc, filename) IN
    IF first.ok
    THEN [attempts |-> 1, ok |-> TRUE, doc |-> first.doc]
    ELSE LET second == OpenAndParse(fsys, "utf-8-sig", filename) IN
         [attempts |-> 2, ok |-> second.ok, doc |-> second.doc]

validate_json(json_data) == \A key \in {"data", "meta"} : key \in json_data

-----------------------------------------------------------------------------
(* Discovery: extract_zip and list_files_in_directory *)

RECURSIVE ExtractAll(_, _)
ExtractAll(fsys, members) ==
    IF members = <<>> THEN fsys
    ELSE ExtractAll((Head(members).name :> Head(members).entry) @@ fsys,
                    Tail(members))

NameList(members) == [i \in 1..Len(members) |-> members[i].name]

IsJson(file) == EndsWith(file, DotJson)

\* Variant that applies the directory walk's suffix filter to the member list.
extract_zip_json_only(fsys, d, filename) ==
    IF d.kind = "archive"
    THEN [files |-> SelectSeq(NameList(d.members), IsJson),
          fs |-> ExtractAll(fsys, d.members),
          out |-> <<>>]
    ELSE [files |-> <<>>, fs |-> fsys, out |-> <<"zip_error">>]

\* The bare except catches every failure of ZipFile(...) and extractall().
extract_zip(fsys, d, filename) ==
    IF d.kind = "archive"
    THEN [files |-> NameList(d.members),
          fs |-> ExtractAll(fsys, d.members),
          out |-> <<>>]
    ELSE [files |-> <<>>, fs |-> fsys, out |-> <<"zip_error">>]

\* os.walk: the (root, files) pairs it yields.  scandir errors are ignored
\* (onerror=None), so a path that is missing or not a directory yields nothing.
OsWalk(d, directory) ==
    [raised |-> FALSE,
     yields |-> IF d.kind = "dir"
                THEN << [root |-> directory, files |-> NameList(d.members)] >>
                ELSE <<>>]

RECURSIVE CollectJson(_)
CollectJson(walk) ==
    IF walk = <<>> THEN <<>>
    ELSE LET kept == SelectSeq(Head(walk).files, IsJson) IN
         [i \in 1..Len(kept) |-> PathJoin(Head(walk).root, kept[i])]
            \o CollectJson(Tail(walk))

\* The except FileNotFoundError clause runs only if os.walk raises.
list_files_in_directory(d, directory) ==
    LET walk == OsWalk(d, directory) IN
    IF walk.raised
    THEN [files |-> <<>>, out |-> <<"dir_not_found">>]
    ELSE [files |-> CollectJson(walk.yields), out |-> <<>>]

-----------------------------------------------------------------------------
(* Inputs: command lines, platforms and disk contents *)

UrlInputs ==
    { [given |-> FALSE, val |-> <<>>],
      [given |-> TRUE,  val |-> <<"https", ":", "/", "/", "host", ":", "443">>],
      [given |-> TRUE,  val |-> <<"host", ":", "443">>],
      [given |-> TRUE,  val |-> <<"https", ":", "/", "/", "host">>],
      [given |-> TRUE,  val |-> <<"a", ":", "b", ":", "c">>],
      [given |-> TRUE,  val |-> <<"https", ":", "/", "/", "host", ":", "443", "/", "api">>] }

\* <<chunkobjects, chunksinjob>> as argparse hands them over (type=int).
ChunkInputs ==
    { <<DefaultChunkObjects, DefaultChunksInJob>>, <<0, 0>>, <<-1, 3>>, <<2, -1>> }

LocationInputs == { <<"x">> \o DotZip, <<"x">> }

Platforms == { "utf-8", "cp1252" }

File(bytes) == [type |-> "file", bytes |-> bytes]

Members ==
    { [name |-> <<"a">> \o DotJson, entry |-> File(<<"{", "data", "meta", "}">>)],
      [name |-> <<"b">> \o DotJson, entry |-> File(<<"{", "computers", "meta", "}">>)],
      [name |-> <<"c">> \o DotJson, entry |-> File(<<"BOM", "{", "data", "meta", "}">>)],
      [name |-> <<"d", ".", "t", "x", "t">>, entry |-> File(<<"{", "data", "meta", "}">>)],
      [name |-> <<"e", "/">>, entry |-> [type |-> "dir", bytes |-> <<>>]],
      [name |-> <<"f">> \o DotJson, entry |-> File(<<"junk">>)],
      [name |-> <<"g">> \o DotJson, entry |-> File(<<"{", "data", "x9D", "meta", "}">>)] }

Distinct(s) == \A i, j \in 1..Len(s) : i # j => s[i] # s[j]

\* A zip archive lists any members in any order; a directory holds regular
\* files under distinct names.
Disks ==
    { [kind |-> "archive", members |-> m] : m \in SeqsUpTo(Members, MaxFiles) }
    \cup { [kind |-> "dir", members |-> m] :
              m \in { s \in SeqsUpTo({ x \in Members : x.entry.type = "file" }, MaxFiles) :
                         Distinct(s) } }
    \cup { [kind |-> k, members |-> <<>>] : k \in {"badarchive", "notzip", "missing"} }

InitialFs(d, location) ==
    IF d.kind = "dir"
    THEN [p \in { PathJoin(location, m.name) : m \in Range(d.members) } |->
             (CHOOSE m \in Range(d.members) : PathJoin(location, m.name) = p).entry]
    ELSE [p \in {} |-> File(<<>>)]

-----------------------------------------------------------------------------
(* main() *)

Init ==
    /\ args \in { [url |-> u, location |-> l, chunkobjects |-> c[1], chunksinjob |-> c[2]] :
                     u \in UrlInputs, l \in LocationInputs, c \in ChunkInputs }
    /\ platform \in Platforms
    /\ disk \in Disks
    /\ fs = InitialFs(disk, args.location)
    /\ pc = "resolve"
    /\ BHCE = NoEndpoint
    /\ chunking = [objs |-> 0, jobs |-> 0]
    /\ client = [state |-> "none", endpoint |-> NoEndpoint]
    /\ probeCalls = 0
    /\ archiveOpened = FALSE
    /\ files = <<>>
    /\ idx = 0
    /\ bhjson = NoDoc
    /\ loadLog = <<>>
    /\ submitLog = <<>>
    /\ stdout = <<>>
    /\ exitStatus = -1

\* exit() with no argument raises SystemExit(None): status 0.
Exit ==
    /\ pc' = "exited"
    /\ exitStatus' = 0

\* An exception nobody catches ends the interpreter with status 1.
Uncaught ==
    /\ pc' = "crashed"
    /\ exitStatus' = 1

ResolveEndpoint ==
    /\ pc = "resolve"
    /\ LET r == resolve_url(args.url) IN
       CASE r.outcome = "exit" ->
                /\ stdout' = Append(stdout, "url_usage")
                /\ Exit
                /\ UNCHANGED BHCE
         [] r.outcome = "IndexError" ->
                /\ Uncaught
                /\ UNCHANGED <<stdout, BHCE>>
         [] r.outcome = "ok" ->
                /\ BHCE' = r.endpoint
                /\ pc' = "chunking"
                /\ UNCHANGED <<stdout, exitStatus>>
    /\ UNCHANGED <<args, platform, disk, fs, chunking, client, probeCalls,
                   archiveOpened, files, idx, bhjson, loadLog, submitLog>>

ConfigureChunking ==
    /\ pc = "chunking"
    /\ chunking' = [objs |-> chunk_or_default(args.chunkobjects, DefaultChunkObjects),
                    jobs |-> chunk_or_default(args.chunksinjob, DefaultChunksInJob)]
    /\ pc' = "client"
    /\ UNCHANGED <<args, platform, disk, fs, BHCE, client, probeCalls, archiveOpened,
                   files, idx, bhjson, loadLog, submitLog, stdout, exitStatus>>

ConstructClient ==
    /\ pc = "client"
    /\ client' = [state |-> "constructed", endpoint |-> BHCE]
    /\ pc' = "probe"
    /\ UNCHANGED <<args, platform, disk, fs, BHCE, chunking, probeCalls, archiveOpened,
                   files, idx, bhjson, loadLog, submitLog, stdout, exitStatus>>

\* Variant whose except clause prints but does not call exit().
AuthenticateWithoutExit ==
    /\ pc = "probe"
    /\ probeCalls' = probeCalls + 1
    /\ \E accepted \in BOOLEAN :
          IF accepted
          THEN /\ client' = [client EXCEPT !.state = "probed"]
               /\ stdout' = Append(stdout, "auth_ok")
          ELSE /\ stdout' = Append(stdout, "auth_failed")
               /\ UNCHANGED client
    /\ pc' = "discover"
    /\ UNCHANGED <<args, platform, disk, fs, BHCE, chunking, archiveOpened,
                   files, idx, bhjson, loadLog, submitLog, exitStatus>>

\* client.get_version() either returns or raises; the client decides.
Authenticate ==
    /\ pc = "probe"
    /\ probeCalls' = probeCalls + 1
    /\ \E accepted \in BOOLEAN :
          IF accepted
          THEN /\ client' = [client EXCEPT !.state = "probed"]
               /\ stdout' = Append(stdout, "auth_ok")
               /\ pc' = "discover"
               /\ UNCHANGED exitStatus
          ELSE /\ stdout' = Append(stdout, "auth_failed")
               /\ Exit
               /\ UNCHANGED client
    /\ UNCHANGED <<args, platform, disk, fs, BHCE, chunking, archiveOpened,
                   files, idx, bhjson, loadLog, submitLog>>

Discover ==
    /\ pc = "discover"
    /\ IF EndsWith(args.location, DotZip)
       THEN LET r == extract_zip(fs, disk, args.location) IN
            /\ archiveOpened' = TRUE
            /\ files' = r.files
            /\ fs' = r.fs
            /\ stdout' = stdout \o r.out
       ELSE LET r == list_files_in_directory(disk, args.location) IN
            /\ files' = r.files
            /\ stdout' = stdout \o r.out
            /\ UNCHANGED <<archiveOpened, fs>>
    /\ idx' = 1
    /\ pc' = "loop"
    /\ UNCHANGED <<args, platform, disk, BHCE, chunking, client, probeCalls,
                   bhjson, loadLog, submitLog, exitStatus>>

\* Variant that skips a file it cannot load and goes on with the next one.
LoadNextSkipOnFailure ==
    /\ pc = "loop"
    /\ idx <= Len(files)
    /\ LET r == load_file(fs, platform, files[idx]) IN
       /\ loadLog' = Append(loadLog, [index |-> idx, file |-> files[idx],
                                      attempts |-> r.attempts, ok |-> r.ok])
       /\ IF r.ok
          THEN /\ bhjson' = r.doc
               /\ pc' = "submit"
               /\ UNCHANGED idx
          ELSE /\ idx' = idx + 1
               /\ UNCHANGED <<bhjson, pc>>
    /\ UNCHANGED <<args, platform, disk, fs, BHCE, chunking, client, probeCalls,
                   archiveOpened, files, submitLog, stdout, exitStatus>>

LoadNext ==
    /\ pc = "loop"
    /\ idx <= Len(files)
    /\ LET r == load_file(fs, platform, files[idx]) IN
       /\ loadLog' = Append(loadLog, [index |-> idx, file |-> files[idx],
                                      attempts |-> r.attempts, ok |-> r.ok])
       /\ IF r.ok
          THEN /\ bhjson' = r.doc
               /\ pc' = "submit"
               /\ UNCHANGED exitStatus
          ELSE /\ Uncaught
               /\ UNCHANGED bhjson
    /\ UNCHANGED <<args, platform, disk, fs, BHCE, chunking, client, probeCalls,
                   archiveOpened, files, idx, submitLog, stdout>>

\* client.chunk_and_submit_data(...) either returns or raises; the client decides.
Submit ==
    /\ pc = "submit"
    /\ \E returned \in BOOLEAN :
          /\ submitLog' = Append(submitLog,
                 [index |-> idx, file |-> files[idx], doc |-> bhjson,
                  num_objs_in_chunk |-> chunking.objs,
                  num_chunks_per_job |-> chunking.jobs,
                  returned |-> returned])
          /\ IF returned
             THEN /\ idx' = idx + 1
                  /\ pc' = "loop"
                  /\ UNCHANGED exitStatus
             ELSE /\ Uncaught
                  /\ UNCHANGED idx
    /\ UNCHANGED <<args, platform, disk, fs, BHCE, chunking, client, probeCalls,
                   archiveOpened, files, bhjson, loadLog, stdout>>

\* Variant whose loop ends one element early.
FinishOneEarly ==
    /\ pc = "loop"
    /\ idx >= Len(files)
    /\ pc' = "done"
    /\ exitStatus' = 0
    /\ UNCHANGED <<args, platform, disk, fs, BHCE, chunking, client, probeCalls,
                   archiveOpened, files, idx, bhjson, loadLog, submitLog, stdout>>

Finish ==
    /\ pc = "loop"
    /\ idx > Len(files)
    /\ pc' = "done"
    /\ exitStatus' = 0
    /\ UNCHANGED <<args, platform, disk, fs, BHCE, chunking, client, probeCalls,
                   archiveOpened, files, idx, bhjson, loadLog, submitLog, stdout>>

Next ==
    \/ ResolveEndpoint
    \/ ConfigureChunking
    \/ ConstructClient
    \/ Authenticate
    \/ Discover
    \/ LoadNext
    \/ Submit
    \/ Finish

Spec == Init /\ [][Next]_vars

-----------------------------------------------------------------------------
(* Vocabulary of the properties *)

Aborted == pc \in {"exited", "crashed"}

Done == pc = "done"

Terminated == Aborted \/ Done

Printed(tag) == tag \in Range(stdout)

ZipMode == EndsWith(args.location, DotZip)

DiscoveryRan == pc \in {"loop", "submit", "done"} \/ idx > 0

NothingProcessed ==
    /\ ~archiveOpened
    /\ ~DiscoveryRan
    /\ files = <<>>
    /\ loadLog = <<>>
    /\ submitLog = <<>>

\* The override splits on ":" into something other than three segments.
Malformed(url) == Truthy(url) /\ Len(Split(url.val, ":")) # 3

SepFree(s) == s # <<>> /\ \A k \in 1..Len(s) : s[k] \notin {":", "/"}

\* scheme://host:port with non-empty, separator-free scheme, host and port.
IsShape(u) ==
    \E i, j \in 1..Len(u) :
        /\ i + 3 < j
        /\ SubSeq(u, i, i + 2) = <<":", "/", "/">>
        /\ u[j] = ":"
        /\ SepFree(SubSeq(u, 1, i - 1))
        /\ SepFree(SubSeq(u, i + 3, j - 1))
        /\ SepFree(SubSeq(u, j + 1, Len(u)))

ShapeParts(u) ==
    LET i == CHOOSE k \in 1..Len(u) : u[k] = ":"
        j == CHOOSE k \in 1..Len(u) : u[k] = ":" /\ k > i
    IN [scheme |-> SubSeq(u, 1, i - 1),
        host   |-> SubSeq(u, i + 3, j - 1),
        port   |-> SubSeq(u, j + 1, Len(u))]

ResolutionFailed == Aborted /\ client.state = "none" /\ probeCalls = 0

Resolved == pc # "resolve" /\ ~ResolutionFailed

\* What lies at a path, read as bytes.
BytesAt(path) ==
    IF path \in DOMAIN fs /\ fs[path].type = "file" THEN fs[path].bytes ELSE <<"unreadable">>

HasBom(bytes) == bytes # <<>> /\ Head(bytes) = "BOM"

\* The bytes are a JSON object in UTF-8 (RFC 8259), no byte-order marker.
ValidJson(bytes) ==
    /\ Len(bytes) >= 2
    /\ bytes[1] = "{"
    /\ bytes[Len(bytes)] = "}"
    /\ \A i \in 2..(Len(bytes) - 1) : bytes[i] \in KeyTokens \cup {"x9D"}

\* Every byte of the file is defined in the encoding.
Decodable(enc, bytes) == enc # "cp1252" \/ "x9D" \notin Range(bytes)

TopLevelKeys(bytes) == Range(bytes) \cap KeyTokens

\* Neither the plain nor the marker-skipping reading of the path is a JSON object.
Unloadable(path) ==
    LET b == BytesAt(path) IN
    ~ValidJson(IF HasBom(b) THEN Tail(b) ELSE b)

Submitted(i) == i \in 1..Len(submitLog) /\ submitLog[i].index = i

-----------------------------------------------------------------------------
(* Properties *)

\* C1: discovery (archive extraction included), load and submit happen only
\* after endpoint resolution succeeded and the probe was called and succeeded;
\* a malformed URL override or a failed probe leaves the run Aborted with no
\* file discovered, loaded or submitted.
C1_ProcessingAfterResolveAndProbe ==
    /\ (pc = "discover" \/ ~NothingProcessed) =>
          /\ ~Malformed(args.url)
          /\ BHCE # NoEndpoint
          /\ client.state = "probed"
          /\ client.endpoint = BHCE
          /\ probeCalls = 1
          /\ Printed("auth_ok")
    /\ (pc # "resolve" /\ Malformed(args.url)) => (Aborted /\ NothingProcessed)
    /\ Printed("auth_failed") => (Aborted /\ NothingProcessed)

C1_Witness ==
    /\ pc = "exited"
    /\ Printed("auth_failed")
    /\ probeCalls = 1
    /\ ZipMode
    /\ disk.kind = "archive"
    /\ disk.members # <<>>
    /\ NothingProcessed

\* C2: a loaded document lacking the top-level member data or meta is never
\* passed to the client's submit operation.
C2_ValidationGatesSubmission ==
    \A i \in 1..Len(submitLog) : validate_json(submitLog[i].doc)

\* C3: the i-th submit call carries the document loaded from the i-th
\* discovered file, file i+1 is not loaded before the submit of file i has
\* returned, and a run that reaches Done loaded and submitted every discovered
\* file exactly once.
C3_InOrderOneAtATime ==
    /\ \A i \in 1..Len(submitLog) :
          /\ submitLog[i].index = i
          /\ submitLog[i].file = files[i]
          /\ submitLog[i].doc = TopLevelKeys(BytesAt(files[i]))
          /\ i <= Len(loadLog)
    /\ \A i \in 1..Len(loadLog) :
          /\ loadLog[i].index = i
          /\ loadLog[i].file = files[i]
          /\ i > 1 => (i - 1 <= Len(submitLog) /\ submitLog[i - 1].returned)
    /\ Len(loadLog) <= Len(submitLog) + 1
    /\ Done => /\ Len(loadLog) = Len(files)
               /\ Len(submitLog) = Len(files)
               /\ \A i \in 1..Len(files) : loadLog[i].ok /\ submitLog[i].returned

C3_Witness ==
    /\ Done
    /\ Len(files) = 3
    /\ Len(submitLog) = 3
    /\ files[1] # files[2]
    /\ submitLog[1].doc # submitLog[2].doc

\* C4: if loading the k-th discovered file fails on both attempts the run ends
\* Aborted, file k and the later files are not submitted, the later files are
\* not loaded, and files 1..k-1 have been submitted.
C4_LoadFailureAbortsRun ==
    \A k \in 1..Len(loadLog) :
        Unloadable(loadLog[k].file) =>
            /\ pc = "crashed"
            /\ exitStatus = 1
            /\ ~loadLog[k].ok
            /\ loadLog[k].attempts = 2
            /\ k = Len(loadLog)
            /\ Len(submitLog) = k - 1
            /\ \A j \in 1..(k - 1) :
                  submitLog[j].file = files[j] /\ submitLog[j].returned

C4_Witness ==
    /\ pc = "crashed"
    /\ Len(files) = 3
    /\ Len(loadLog) = 2
    /\ Unloadable(files[2])
    /\ ~Unloadable(files[3])
    /\ Len(submitLog) = 1

DiscoveryError ==
    \/ (ZipMode /\ disk.kind # "archive")
    \/ (~ZipMode /\ disk.kind = "missing")

\* C5: when the location is an archive that cannot be opened or extracted, or
\* a directory that does not exist, discovery prints a diagnostic, returns the
\* empty sequence, and the run reaches Done with no load and no submission.
C5_DiscoveryErrorDiagnosed ==
    (DiscoveryRan /\ DiscoveryError) =>
        /\ Printed("zip_error") \/ Printed("dir_not_found")
        /\ files = <<>>
        /\ loadLog = <<>>
        /\ submitLog = <<>>
        /\ pc \in {"loop", "done"}

\* C6: a URL override of invalid shape and a failed probe both end the
\* process with a diagnostic and a non-zero exit status.
C6_FatalStartupExitsNonZero ==
    ((pc # "resolve" /\ Malformed(args.url)) \/ Printed("auth_failed")) =>
        /\ Aborted
        /\ Printed("url_usage") \/ Printed("auth_failed")
        /\ exitStatus # 0

\* C7: every submit call passes chunk and job sizes >= 1, and a run given 0 or
\* a negative value for either makes no submit call.
C7_ChunkingAtLeastOne ==
    /\ \A i \in 1..Len(submitLog) :
          submitLog[i].num_objs_in_chunk >= 1 /\ submitLog[i].num_chunks_per_job >= 1
    /\ (args.chunkobjects <= 0 \/ args.chunksinjob <= 0) => submitLog = <<>>

\* C8: resolution accepts exactly the overrides of shape scheme://host:port
\* and yields their scheme, host and port; an override that does not split on
\* ":" into three segments fails with the usage diagnostic before the client
\* exists; without an override the defaults are used.
C8_UrlResolutionExact ==
    pc # "resolve" =>
        /\ (args.url.given /\ IsShape(args.url.val)) =>
              (Resolved /\ BHCE = ShapeParts(args.url.val))
        /\ (args.url.given /\ Len(Split(args.url.val, ":")) # 3) =>
              (ResolutionFailed /\ Printed("url_usage"))
        /\ (args.url.given /\ Resolved) => IsShape(args.url.val)
        /\ ~args.url.given =>
              /\ Resolved
              /\ BHCE = [scheme |-> api_info.BHCE_SCHEME,
                         host   |-> api_info.BHCE_DOMAIN,
                         port   |-> api_info.BHCE_PORT]

LoadRules(e, firstAttemptCondition) ==
    LET b == BytesAt(e.file) IN
    /\ e.attempts \in {1, 2}
    /\ e.attempts = 1 => e.ok
    /\ (~HasBom(b) /\ ValidJson(b) /\ firstAttemptCondition) => (e.attempts = 1 /\ e.ok)
    /\ (HasBom(b) /\ ValidJson(Tail(b))) => (e.attempts = 2 /\ e.ok)
    /\ Unloadable(e.file) => (e.attempts = 2 /\ ~e.ok)
    /\ ~e.ok => pc = "crashed"

\* C9 as stated: at most two attempts per file, the second only after the
\* first raised; valid JSON without a byte-order marker is returned from the
\* first attempt, valid JSON behind a byte-order marker only from the second,
\* and a failure of the second attempt propagates.
C9_TwoAttemptsAsStated ==
    \A k \in 1..Len(loadLog) : LoadRules(loadLog[k], TRUE)

\* C9 amended: as above, except that valid JSON without a byte-order marker is
\* returned from the first attempt when its bytes decode in the platform's
\* default encoding, and from the second attempt when they do not.
C9_TwoAttemptsDecodable ==
    \A k \in 1..Len(loadLog) :
        LET b == BytesAt(loadLog[k].file) IN
        /\ LoadRules(loadLog[k], Decodable(platform, b))
        /\ (~HasBom(b) /\ ValidJson(b) /\ ~Decodable(platform, b)) =>
              (loadLog[k].attempts = 2 /\ loadLog[k].ok)

C9_Witness ==
    \E k \in 1..Len(loadLog) :
        /\ HasBom(BytesAt(loadLog[k].file))
        /\ loadLog[k].attempts = 2
        /\ loadLog[k].ok
        /\ k < Len(loadLog)
        /\ loadLog[k + 1].attempts = 1

ValidArchiveOpened == archiveOpened /\ disk.kind = "archive"

\* C10 as stated: when the location ends in .zip and is a valid archive the
\* loader is handed the complete member list in archive order, so every
\* member is loaded and, if it parses, submitted; a location not ending in
\* .zip is never opened as an archive.
C10_EveryMemberLoaded ==
    /\ (ValidArchiveOpened /\ Terminated /\ \A i \in 1..Len(submitLog) : submitLog[i].returned) =>
          /\ files = NameList(disk.members)
          /\ \A i \in 1..Len(disk.members) :
                /\ i <= Len(loadLog)
                /\ loadLog[i].file = disk.members[i].name
                /\ loadLog[i].ok => Submitted(i)
    /\ ~ZipMode => ~archiveOpened

\* C10 amended: the loader is handed the complete member list in archive
\* order and loads it in that order whatever the suffix, submitting each
\* member that parses, up to the first member that fails to load, which
\* aborts the run; every member is loaded and submitted in a run that reaches
\* Done; a location not ending in .zip is never opened as an archive.
C10_MembersLoadedUntilFailure ==
    /\ ValidArchiveOpened =>
          /\ files = NameList(disk.members)
          /\ \A i \in 1..Len(loadLog) :
                /\ loadLog[i].file = disk.members[i].name
                /\ loadLog[i].ok => (Submitted(i) \/ (pc = "submit" /\ i = Len(loadLog)))
                /\ ~loadLog[i].ok => (pc = "crashed" /\ i = Len(loadLog))
          /\ Done => /\ Len(loadLog) = Len(disk.members)
                     /\ Len(submitLog) = Len(disk.members)
    /\ ~ZipMode => ~archiveOpened

C10_Witness ==
    /\ Done
    /\ ValidArchiveOpened
    /\ \E i \in 1..Len(submitLog) : ~IsJson(submitLog[i].file)
    /\ \E i \in 1..Len(submitLog) : IsJson(submitLog[i].file)

====
